---- MODULE Spec2Model ----
(***************************************************************************)
(* Location-sharing backend (backend/server.py): the three handlers of the *)
(* /api router over the MongoDB collection db.locations and the Telegram   *)
(* sendLocation call.                                                      *)
(*                                                                         *)
(* A request to POST /location/share is a process with a position pc[r];   *)
(* the handler's await on insert_one and the blocking requests.post are    *)
(* the points where the store, the sink and other requests take steps.     *)
(* Floats are modelled by integers, uuid4 by a fresh counter, and a        *)
(* datetime by the pair (second of the hour, microsecond); the date and    *)
(* hour prefix of the ISO text is the same for every instant of the model  *)
(* and is left out.  The wall clock is read as a non-decreasing sequence   *)
(* of sample instants.                                                     *)
(*                                                                         *)
(* Other requests may take steps while one request is inside requests.post *)
(* (several worker processes); one event loop alone allows fewer           *)
(* interleavings, all of them among these.                                 *)
(*                                                                         *)
(* Spec starts on an empty collection, SpecBig on a collection filled      *)
(* around the listing cap, FairSpec is Spec with the progress the store,   *)
(* the sink and the timeout of requests.post stand for.                    *)
(***************************************************************************)
EXTENDS Integers, Sequences, FiniteSets

\* ---------------------------------------------------------------- bounds
MaxReq == 2          \* submit-location requests in one behaviour
MaxClock == 3        \* the clock takes the sample instants 0..MaxClock
BigSpread == 1       \* a pre-populated store holds ListLimit-1 or ListLimit+BigSpread records

\* ------------------------------------------------------ program constants
ListLimit == 100     \* to_list(100)

VARIABLES
    clients,     \* the request slots that submit in this behaviour
    clock,       \* index of the sample instant datetime.now() returns
    nextId,      \* the next value uuid4() returns
    store,       \* db.locations, in natural (insertion) order
    pc,          \* pc[r]: position of request r in share_location
    body,        \* body[r]: the JSON body request r carried
    obj,         \* obj[r]: location_obj of request r
    doc,         \* doc[r]: the document request r hands to insert_one
    inserts,     \* inserts[r]: insert_one calls request r has issued
    notifies,    \* notifies[r]: requests.post calls request r has started
    stored,      \* stored[r]: the store has applied request r's insert
    clearedSince,\* clearedSince[r]: a delete_many ran after r's insert was applied
    last         \* the last operation on the store or the root endpoint, with its response

vars == <<clients, clock, nextId, store, pc, body, obj, doc, inserts, notifies,
          stored, clearedSince, last>>

Reqs == 1..MaxReq

\* ------------------------------------------------------------ JSON values
\* A JSON number, a JSON string (its characters) and JSON null.
Num(n) == [t |-> "num", v |-> n]
Str(s) == [t |-> "str", v |-> s]
Null == [t |-> "null", v |-> 0]

\* ---------------------------------------------------------------- datetime
UsSamples == <<0, 1, 999999>>

\* The k-th sample instant of the wall clock, from 00:59 on.
ClockInstant(k) == [sec |-> 59 + (k \div 3), us |-> UsSamples[(k % 3) + 1]]

\* datetime.now(timezone.utc)
Now == ClockInstant(clock)

\* The instant of the j-th record written before the behaviour starts.
PastInstant(j) == [sec |-> j \div 3, us |-> UsSamples[(j % 3) + 1]]

\* Chronological order of two datetimes.
InstLeq(a, b) == a.sec < b.sec \/ (a.sec = b.sec /\ a.us <= b.us)
InstLess(a, b) == a.sec < b.sec \/ (a.sec = b.sec /\ a.us < b.us)

Digit(d) == 48 + d

RECURSIVE Digits(_, _)
\* n in decimal, zero-padded to w characters
Digits(n, w) == IF w = 0 THEN <<>> ELSE Append(Digits(n \div 10, w - 1), Digit(n % 10))

TzSuffix == <<43, 48, 48, 58, 48, 48>>      \* "+00:00"

\* datetime.isoformat(): MM:SS[.ffffff]+00:00, the fraction left out when it is 0
IsoFormat(dt) ==
    Digits(dt.sec \div 60, 2) \o <<58>> \o Digits(dt.sec % 60, 2)
        \o (IF dt.us = 0 THEN <<>> ELSE <<46>> \o Digits(dt.us, 6))
        \o TzSuffix

RECURSIVE ParseInt(_, _, _)
\* the decimal number in s[from..to]
ParseInt(s, from, to) ==
    IF to < from THEN 0 ELSE ParseInt(s, from, to - 1) * 10 + (s[to] - 48)

\* datetime.fromisoformat()
FromIsoFormat(s) ==
    [sec |-> ParseInt(s, 1, 2) * 60 + ParseInt(s, 4, 5),
     us  |-> IF s[6] = 46 THEN ParseInt(s, 7, 12) ELSE 0]

RECURSIVE StrLessFrom(_, _, _)
\* binary (code point) comparison of two strings from position i on
StrLessFrom(a, b, i) ==
    IF i > Len(b) THEN FALSE
    ELSE IF i > Len(a) THEN TRUE
    ELSE IF a[i] # b[i] THEN a[i] < b[i]
    ELSE StrLessFrom(a, b, i + 1)

StrLess(a, b) == StrLessFrom(a, b, 1)

\* ------------------------------------------------------- pydantic models
IsDigits(s) == Len(s) > 0 /\ \A i \in 1..Len(s) : s[i] >= 48 /\ s[i] <= 57

\* A value the float validator accepts: a number, or a string that reads as one.
FloatOk(v) == v.t = "num" \/ (v.t = "str" /\ IsDigits(v.v))

AsFloat(v) == IF v.t = "num" THEN v.v ELSE ParseInt(v.v, 1, Len(v.v))

\* Validation of the request body against LocationCreate.
ValidCreate(b) ==
    /\ "latitude" \in DOMAIN b /\ FloatOk(b.latitude)
    /\ "longitude" \in DOMAIN b /\ FloatOk(b.longitude)
    /\ "accuracy" \in DOMAIN b => (b.accuracy.t = "null" \/ FloatOk(b.accuracy))

\* Variant: extra="allow", the model keeps an id and a timestamp the body carries.
LocationCreate_AllowExtra(b) ==
    IF "timestamp" \in DOMAIN b /\ "id" \in DOMAIN b
    THEN [latitude  |-> AsFloat(b.latitude),
          longitude |-> AsFloat(b.longitude),
          accuracy  |-> Null,
          id        |-> b.id.v,
          timestamp |-> b.timestamp.v]
    ELSE [latitude  |-> AsFloat(b.latitude),
          longitude |-> AsFloat(b.longitude),
          accuracy  |-> IF "accuracy" \in DOMAIN b /\ b.accuracy.t # "null"
                        THEN Num(AsFloat(b.accuracy)) ELSE Null]

\* LocationCreate(**body): the declared fields only, other keys are ignored.
LocationCreate(b) ==
    [latitude  |-> AsFloat(b.latitude),
     longitude |-> AsFloat(b.longitude),
     accuracy  |-> IF "accuracy" \in DOMAIN b /\ b.accuracy.t # "null"
                   THEN Num(AsFloat(b.accuracy)) ELSE Null]

\* input.model_dump()
ModelDump(input) == input

\* str(uuid.uuid4())
Uuid == <<nextId>>

\* Location(**d): id and timestamp come from the default factories unless d has them.
Location(d) ==
    [id        |-> IF "id" \in DOMAIN d THEN d.id ELSE Uuid,
     latitude  |-> d.latitude,
     longitude |-> d.longitude,
     accuracy  |-> IF "accuracy" \in DOMAIN d THEN d.accuracy ELSE Null,
     timestamp |-> IF "timestamp" \in DOMAIN d THEN FromIsoFormat(d.timestamp) ELSE Now]

\* doc = location_obj.model_dump(); doc['timestamp'] = doc['timestamp'].isoformat()
Doc(location) == [location EXCEPT !.timestamp = IsoFormat(@)]

\* loc['timestamp'] = datetime.fromisoformat(loc['timestamp']) on every document
ParseRecord(d) == [d EXCEPT !.timestamp = FromIsoFormat(@)]

\* ---------------------------------------------------------- request bodies
ClientInstant == [sec |-> 7, us |-> 5]

Bodies ==
    << [latitude |-> Num(28), longitude |-> Num(77), accuracy |-> Num(10)],
       [latitude |-> Str(<<50, 56>>), longitude |-> Num(77)],
       [latitude |-> Num(28), longitude |-> Num(77), accuracy |-> Null,
        timestamp |-> Str(IsoFormat(ClientInstant)), id |-> Str(<<0>>)],
       [longitude |-> Num(77)],
       [latitude |-> Num(28)],
       [latitude |-> Str(<<97, 98, 99>>), longitude |-> Num(77)],
       [latitude |-> Num(28), longitude |-> Null],
       [latitude |-> Num(28), longitude |-> Num(77), accuracy |-> Str(<<97>>)] >>

NoBody == [none |-> Null]
NoObj == [none |-> Null]

\* --------------------------------------------------------------- the store
Min(a, b) == IF a < b THEN a ELSE b

\* Variant: sort("timestamp", 1), ascending.
SortsBefore_Asc(a, b, rev) ==
    \/ StrLess(a.timestamp, b.timestamp)
    \/ ~rev /\ a.timestamp = b.timestamp

\* Whether document a comes before document b in sort("timestamp", -1): by
\* descending timestamp text; a document met later in natural order goes after
\* those of equal timestamp or, with rev, before them (the server promises neither).
\* a is met before b in natural order.
SortsBefore(a, b, rev) ==
    \/ StrLess(b.timestamp, a.timestamp)
    \/ ~rev /\ a.timestamp = b.timestamp

RECURSIVE InsertPos(_, _, _, _, _)
\* The number of documents of the sorted sequence t that come before d,
\* searched between lo and hi.
InsertPos(t, d, rev, lo, hi) ==
    IF lo >= hi THEN lo
    ELSE LET mid == (lo + hi) \div 2
         IN  IF SortsBefore(t[mid + 1], d, rev)
             THEN InsertPos(t, d, rev, mid + 1, hi)
             ELSE InsertPos(t, d, rev, lo, mid)

\* The sorted sequence t with d, met after all of t in natural order, put in place.
InsertSorted(t, d, rev) ==
    LET p == InsertPos(t, d, rev, 0, Len(t))
    IN  SubSeq(t, 1, p) \o <<d>> \o SubSeq(t, p + 1, Len(t))

RECURSIVE SortInto(_, _, _, _, _)
\* The sorted sequence t with s[lo..hi] put in place, in natural order
\* (Len(t) is asked first, so that t is evaluated before the recursion goes on).
SortInto(t, s, rev, lo, hi) ==
    IF Len(t) < 0 \/ lo > hi THEN t
    ELSE IF lo = hi THEN InsertSorted(t, s[lo], rev)
    ELSE LET mid == (lo + hi) \div 2
         IN  SortInto(SortInto(t, s, rev, lo, mid), s, rev, mid + 1, hi)

\* Variant: to_list(None), the cap is not applied.
FindSorted_NoLimit(s, limit, rev) == SortInto(<<>>, s, rev, 1, Len(s))

\* find({}, {"_id": 0}).sort("timestamp", -1).to_list(limit)
FindSorted(s, limit, rev) ==
    LET sorted == SortInto(<<>>, s, rev, 1, Len(s))
    IN  SubSeq(sorted, 1, Min(Len(s), limit))

\* Variant: delete_one({}) removes the first document only.
DeleteMany_One(s) ==
    IF s = <<>> THEN [remaining |-> <<>>, deleted_count |-> 0]
    ELSE [remaining |-> Tail(s), deleted_count |-> 1]

\* delete_many({}): every document matches the empty filter.
DeleteMany(s) == [remaining |-> <<>>, deleted_count |-> Len(s)]

\* insert_one(doc)
InsertOne(s, d) == Append(s, d)

\* A store written before the behaviour starts: n records, the i-th written
\* carrying the instant its request read, which is not always the i-th instant.
PastDoc(i, p) ==
    [id        |-> <<i>>,
     latitude  |-> 28,
     longitude |-> 77,
     accuracy  |-> Null,
     timestamp |-> IsoFormat(PastInstant(
                     CASE p = "asc"  -> i
                       [] p = "swap" -> IF i % 2 = 1 THEN i + 1 ELSE i - 1
                       [] OTHER      -> i \div 2))]

BigStore(n, p) == SubSeq([i \in 1..n |-> PastDoc(i, p)], 1, n)

\* ------------------------------------------------------------------- Init
Responses == {"ok", "validation_error", "storage_error", "notification_error"}

NoOp == [op |-> "none"]

InitRequests ==
    /\ pc = [r \in Reqs |-> "idle"]
    /\ body = [r \in Reqs |-> NoBody]
    /\ obj = [r \in Reqs |-> NoObj]
    /\ doc = [r \in Reqs |-> NoObj]
    /\ inserts = [r \in Reqs |-> 0]
    /\ notifies = [r \in Reqs |-> 0]
    /\ stored = [r \in Reqs |-> FALSE]
    /\ clearedSince = [r \in Reqs |-> FALSE]
    /\ last = NoOp

\* The service starts on an empty collection and every slot submits.
Init ==
    /\ clients = Reqs
    /\ clock = 0
    /\ store = <<>>
    /\ nextId = 1
    /\ InitRequests

\* The collection is filled around the listing cap and slot 1 submits.  With
\* pending, the request of slot MaxReq wrote the oldest record of the collection
\* and is still in its notification call, while the requests of other clients
\* wrote the rest.
InitBig ==
    /\ clock = MaxClock - 1
    /\ last = NoOp
    /\ clearedSince = [r \in Reqs |-> FALSE]
    /\ \E n \in {ListLimit - 1, ListLimit + BigSpread}, p \in {"asc", "swap", "tie"},
          pending \in BOOLEAN :
          /\ pending => (n > ListLimit /\ p = "asc")
          /\ store = BigStore(n, p)
          /\ nextId = n + 1
          /\ clients = IF pending THEN {1, MaxReq} ELSE {1}
          /\ LET there(r) == pending /\ r = MaxReq
             IN  /\ pc = [r \in Reqs |-> IF there(r) THEN "notifying" ELSE "idle"]
                 /\ body = [r \in Reqs |-> IF there(r) THEN Bodies[2] ELSE NoBody]
                 /\ obj = [r \in Reqs |-> IF there(r) THEN ParseRecord(store[1]) ELSE NoObj]
                 /\ doc = [r \in Reqs |-> IF there(r) THEN store[1] ELSE NoObj]
                 /\ inserts = [r \in Reqs |-> IF there(r) THEN 1 ELSE 0]
                 /\ notifies = [r \in Reqs |-> IF there(r) THEN 1 ELSE 0]
                 /\ stored = [r \in Reqs |-> there(r)]

\* ------------------------------------------------- POST /location/share
\* Variant: the handler stores the raw coordinates first and validates afterwards.
ShareRejected_Late(r, b) ==
    /\ r \in clients /\ pc[r] = "idle"
    /\ ~ValidCreate(b)
    /\ store' = InsertOne(store, [id |-> Uuid, latitude |-> 0, longitude |-> 0,
                                  accuracy |-> Null, timestamp |-> IsoFormat(Now)])
    /\ nextId' = nextId + 1
    /\ inserts' = [inserts EXCEPT ![r] = @ + 1]
    /\ pc' = [pc EXCEPT ![r] = "validation_error"]
    /\ body' = [body EXCEPT ![r] = b]
    /\ last' = [op |-> "insert"]
    /\ UNCHANGED <<clients, clock, obj, doc, notifies, stored, clearedSince>>

\* The body fails LocationCreate: FastAPI answers 422 and the handler never runs.
ShareRejected(r, b) ==
    /\ r \in clients /\ pc[r] = "idle"
    /\ ~ValidCreate(b)
    /\ pc' = [pc EXCEPT ![r] = "validation_error"]
    /\ body' = [body EXCEPT ![r] = b]
    /\ UNCHANGED <<clients, clock, nextId, store, obj, doc, inserts, notifies,
                   stored, clearedSince, last>>

\* The handler runs to its first await: it builds location_obj and doc and
\* issues insert_one(doc).
ShareAccepted(r, b) ==
    /\ r \in clients /\ pc[r] = "idle"
    /\ ValidCreate(b)
    /\ LET input == LocationCreate(b)
           location_obj == Location(ModelDump(input))
       IN  /\ obj' = [obj EXCEPT ![r] = location_obj]
           /\ doc' = [doc EXCEPT ![r] = Doc(location_obj)]
    /\ nextId' = nextId + 1
    /\ inserts' = [inserts EXCEPT ![r] = @ + 1]
    /\ pc' = [pc EXCEPT ![r] = "inserting"]
    /\ body' = [body EXCEPT ![r] = b]
    /\ UNCHANGED <<clients, clock, store, notifies, stored, clearedSince,
                   last>>

\* Variant: replace_one on the coordinates with upsert, which overwrites a record
\* of the same place.
StoreInsert_Upsert(r) ==
    /\ pc[r] = "inserting"
    /\ IF \E i \in 1..Len(store) : store[i].latitude = doc[r].latitude
                                    /\ store[i].longitude = doc[r].longitude
       THEN LET i == CHOOSE j \in 1..Len(store) : store[j].latitude = doc[r].latitude
                                                 /\ store[j].longitude = doc[r].longitude
            IN  store' = [store EXCEPT ![i] = doc[r]]
       ELSE store' = InsertOne(store, doc[r])
    /\ stored' = [stored EXCEPT ![r] = TRUE]
    /\ pc' = [pc EXCEPT ![r] = "acked"]
    /\ last' = [op |-> "insert"]
    /\ UNCHANGED <<clients, clock, nextId, body, obj, doc, inserts, notifies,
                   clearedSince>>

\* The store applies the insert and acknowledges it.
StoreInsert(r) ==
    /\ pc[r] = "inserting"
    /\ store' = InsertOne(store, doc[r])
    /\ stored' = [stored EXCEPT ![r] = TRUE]
    /\ pc' = [pc EXCEPT ![r] = "acked"]
    /\ last' = [op |-> "insert"]
    /\ UNCHANGED <<clients, clock, nextId, body, obj, doc, inserts, notifies,
                   clearedSince>>

\* Variant: the failure of insert_one is swallowed and the handler goes on.
StoreReject_Swallowed(r) ==
    /\ pc[r] = "inserting"
    /\ pc' = [pc EXCEPT ![r] = "acked"]
    /\ UNCHANGED <<clients, clock, nextId, store, body, obj, doc, inserts, notifies,
                   stored, clearedSince, last>>

\* insert_one raises: the exception leaves the handler, the request answers 500.
StoreReject(r) ==
    /\ pc[r] = "inserting"
    /\ pc' = [pc EXCEPT ![r] = "storage_error"]
    /\ UNCHANGED <<clients, clock, nextId, store, body, obj, doc, inserts, notifies,
                   stored, clearedSince, last>>

\* The store takes the command and never answers; the client sets no timeout,
\* so the await never ends.
StoreStall(r) ==
    /\ pc[r] = "inserting"
    /\ pc' = [pc EXCEPT ![r] = "insert_stalled"]
    /\ UNCHANGED <<clients, clock, nextId, store, body, obj, doc, inserts, notifies,
                   stored, clearedSince, last>>

\* The await returns and the handler calls send_location_to_telegram:
\* requests.post is started.
SendLocation(r) ==
    /\ pc[r] = "acked"
    /\ notifies' = [notifies EXCEPT ![r] = @ + 1]
    /\ pc' = [pc EXCEPT ![r] = "notifying"]
    /\ UNCHANGED <<clients, clock, nextId, store, body, obj, doc, inserts,
                   stored, clearedSince, last>>

\* The sink answers 2xx: the handler returns location_obj.
NotifyOk(r) ==
    /\ pc[r] = "notifying"
    /\ pc' = [pc EXCEPT ![r] = "ok"]
    /\ UNCHANGED <<clients, clock, nextId, store, body, obj, doc, inserts, notifies,
                   stored, clearedSince, last>>

\* Variant: a failed notification deletes the record again.
NotifyFail_Rollback(r) ==
    /\ pc[r] = "notifying"
    /\ pc' = [pc EXCEPT ![r] = "notification_error"]
    /\ store' = SelectSeq(store, LAMBDA d : d.id # obj[r].id)
    /\ last' = [op |-> "delete_one"]
    /\ UNCHANGED <<clients, clock, nextId, body, obj, doc, inserts, notifies,
                   stored, clearedSince>>

\* The call raises (connection error, or raise_for_status on a non-2xx answer):
\* the except clause turns it into HTTPException(500).
NotifyFail(r) ==
    /\ pc[r] = "notifying"
    /\ pc' = [pc EXCEPT ![r] = "notification_error"]
    /\ UNCHANGED <<clients, clock, nextId, store, body, obj, doc, inserts, notifies,
                   stored, clearedSince, last>>

\* The sink takes the request and never answers.
NotifyStall(r) ==
    /\ pc[r] = "notifying"
    /\ pc' = [pc EXCEPT ![r] = "notify_stalled"]
    /\ UNCHANGED <<clients, clock, nextId, store, body, obj, doc, inserts, notifies,
                   stored, clearedSince, last>>

\* Variant: a timed-out notification call is sent again.
NotifyTimeout_Retry(r) ==
    /\ pc[r] = "notify_stalled"
    /\ notifies' = [notifies EXCEPT ![r] = @ + 1]
    /\ pc' = [pc EXCEPT ![r] = "notifying"]
    /\ UNCHANGED <<clients, clock, nextId, store, body, obj, doc, inserts,
                   stored, clearedSince, last>>

\* timeout=10 expires: requests raises Timeout, caught like any other exception.
NotifyTimeout(r) ==
    /\ pc[r] = "notify_stalled"
    /\ pc' = [pc EXCEPT ![r] = "notification_error"]
    /\ UNCHANGED <<clients, clock, nextId, store, body, obj, doc, inserts, notifies,
                   stored, clearedSince, last>>

\* ------------------------------------------------------ GET /locations
GetLocations ==
    /\ \E rev \in BOOLEAN :
          \E locations \in {FindSorted(store, ListLimit, rev)} :
             last' = [op |-> "list", status |-> 200,
                      body |-> SubSeq([k \in 1..Len(locations) |-> ParseRecord(locations[k])],
                                      1, Len(locations))]
    /\ UNCHANGED <<clients, clock, nextId, store, pc, body, obj, doc, inserts,
                   notifies, stored, clearedSince>>

\* --------------------------------------------------- DELETE /locations
ClearLocations ==
    /\ LET result == DeleteMany(store)
       IN  /\ store' = result.remaining
           /\ last' = [op |-> "clear", status |-> 200,
                        deleted_count |-> result.deleted_count, before |-> Len(store)]
    /\ clearedSince' = [r \in Reqs |-> clearedSince[r] \/ stored[r]]
    /\ UNCHANGED <<clients, clock, nextId, pc, body, obj, doc, inserts, notifies,
                   stored>>

\* --------------------------------------------------------------- GET /
Root ==
    /\ last' = [op |-> "root", status |-> 200]
    /\ UNCHANGED <<clients, clock, nextId, store, pc, body, obj, doc, inserts,
                   notifies, stored, clearedSince>>

\* ------------------------------------------------------------ environment
\* Time passes: the wall clock moves to its next sample instant.
Tick ==
    /\ clock < MaxClock
    /\ clock' = clock + 1
    /\ UNCHANGED <<clients, nextId, store, pc, body, obj, doc, inserts, notifies,
                   stored, clearedSince, last>>

Next ==
    \/ \E r \in Reqs, i \in 1..Len(Bodies) : ShareRejected(r, Bodies[i])
    \/ \E r \in Reqs, i \in 1..Len(Bodies) : ShareAccepted(r, Bodies[i])
    \/ \E r \in Reqs : StoreInsert(r)
    \/ \E r \in Reqs : StoreReject(r)
    \/ \E r \in Reqs : StoreStall(r)
    \/ \E r \in Reqs : SendLocation(r)
    \/ \E r \in Reqs : NotifyOk(r)
    \/ \E r \in Reqs : NotifyFail(r)
    \/ \E r \in Reqs : NotifyStall(r)
    \/ \E r \in Reqs : NotifyTimeout(r)
    \/ GetLocations
    \/ ClearLocations
    \/ Root
    \/ Tick

Spec == Init /\ [][Next]_vars

SpecBig == InitBig /\ [][Next]_vars

\* The store answers or stalls, the handler resumes when its await returns, the
\* sink answers or stalls, and the timeout of requests.post expires.
Fairness ==
    \A r \in Reqs :
        /\ WF_vars(StoreInsert(r) \/ StoreReject(r) \/ StoreStall(r))
        /\ WF_vars(SendLocation(r))
        /\ WF_vars(NotifyOk(r) \/ NotifyFail(r) \/ NotifyStall(r))
        /\ WF_vars(NotifyTimeout(r))

FairSpec == Init /\ [][Next]_vars /\ Fairness

\* ================================================================= claims
InStore(r) == \E i \in 1..Len(store) : store[i] = doc[r]

Listed(r) == \E k \in 1..Len(last.body) : last.body[k].id = obj[r].id

\* C1: a request's notification call is never started before its own insert has
\* been applied by the store, and a request whose insert failed answers with a
\* storage error and never starts a notification call.
StoreBeforeNotify ==
    \A r \in Reqs :
        /\ notifies[r] > 0 => stored[r]
        /\ pc[r] \in {"notifying", "notify_stalled", "ok", "notification_error"} => stored[r]
        /\ pc[r] = "storage_error" => notifies[r] = 0 /\ ~stored[r]

StoreBeforeNotifyWitness ==
    \E r, q \in Reqs :
        /\ pc[r] = "notifying" /\ notifies[r] = 1
        /\ pc[q] = "storage_error"

\* The documents of the store, other than request r's, that sort("timestamp", -1)
\* may put before request r's document.
NotOlder(r) ==
    {i \in 1..Len(store) :
        store[i].id # doc[r].id /\ ~StrLess(store[i].timestamp, doc[r].timestamp)}

NonNumeric(v) ==
    \/ v.t = "null"
    \/ v.t = "str" /\ (v.v = <<>> \/ \E i \in 1..Len(v.v) : v.v[i] < 48 \/ v.v[i] > 57)

BadCoords(b) ==
    \/ "latitude" \notin DOMAIN b
    \/ "longitude" \notin DOMAIN b
    \/ NonNumeric(b.latitude)
    \/ NonNumeric(b.longitude)

ClearRemovesAll ==
    /\ [](last.op = "clear" => (store = <<>> /\ last.deleted_count = last.before))
    /\ [][(last.op = "clear" /\ last'.op = "list") => last'.body = <<>>]_vars

ClearRemovesAllWitness ==
    /\ last.op = "clear"
    /\ last.deleted_count = 2
    /\ \A r \in Reqs : stored[r]

\* The submissions so far are successful ones on a store that started empty and
\* was never cleared after an insert.
OnlySuccessful ==
    /\ \A r \in Reqs : pc[r] \in {"idle", "ok"}
    /\ \A r \in Reqs : ~clearedSince[r]

NumOk == Cardinality({r \in Reqs : pc[r] = "ok"})

\* C6 as claimed: after N successful submissions a listing holds N records in
\* strictly descending order of timestamp.
ListStrictlyDescending ==
    (last.op = "list" /\ OnlySuccessful) =>
        /\ Len(last.body) = NumOk
        /\ \A k \in 1..(Len(last.body) - 1) :
               InstLess(last.body[k + 1].timestamp, last.body[k].timestamp)

\* C6 as amended: after N successful submissions (N <= ListLimit) a listing holds
\* N records in descending order of timestamp, where adjacent records may carry
\* the same timestamp.
ListDescending ==
    (last.op = "list" /\ OnlySuccessful) =>
        /\ Len(last.body) = NumOk
        /\ \A k \in 1..(Len(last.body) - 1) :
               InstLeq(last.body[k + 1].timestamp, last.body[k].timestamp)

ListDescendingWitness ==
    /\ last.op = "list" /\ OnlySuccessful
    /\ NumOk = 2 /\ Len(last.body) = 2
    /\ last.body[1].timestamp = last.body[2].timestamp

\* C7: a request issues at most one insert and starts at most one notification
\* call, exactly one of each when it succeeds; the store holds one record for
\* each request whose insert succeeded since the last clear.
ExactlyOnce ==
    /\ \A r \in Reqs :
          /\ inserts[r] <= 1 /\ notifies[r] <= 1
          /\ pc[r] = "ok" => (inserts[r] = 1 /\ notifies[r] = 1)
          /\ pc[r] = "notification_error" => (inserts[r] = 1 /\ notifies[r] = 1)
    /\ Len(store) = Cardinality({r \in Reqs : stored[r] /\ ~clearedSince[r]})

ExactlyOnceWitness ==
    \E r, q \in Reqs :
        /\ pc[r] = "ok" /\ pc[q] = "notification_error"
        /\ body[r] = body[q]
        /\ Len(store) = 2

\* C8: the record a request creates carries the server's clock reading and a
\* server-made id, whatever timestamp or id the body carried, in the returned
\* record and in the stored document; its timestamp is no earlier than that of
\* any record whose request had answered before this one arrived.
ServerTimestamp ==
    [][\A r \in Reqs :
          (pc[r] = "idle" /\ pc'[r] = "inserting") =>
              /\ obj'[r].timestamp = Now
              /\ obj'[r].id = Uuid
              /\ FromIsoFormat(doc'[r].timestamp) = Now
              /\ doc'[r].id = Uuid
              /\ \A q \in Reqs :
                    (pc[q] \in Responses /\ obj[q] # NoObj) =>
                        InstLeq(obj[q].timestamp, obj'[r].timestamp)]_vars

ServerTimestampWitness ==
    \E r, q \in Reqs :
        /\ pc[q] = "ok"
        /\ pc[r] = "inserting" /\ "timestamp" \in DOMAIN body[r]
        /\ InstLess(obj[q].timestamp, obj[r].timestamp)

\* C9: every submit-location request whose handler has issued its insert
\* eventually answers.
EveryRequestReturns ==
    \A r \in Reqs : (pc[r] = "inserting") ~> (pc[r] \in Responses)

\* C10: a step leaves the store as it is, appends one record to it or empties it;
\* a listing and the root endpoint leave it as it is.
StoreFrame ==
    [][/\ \/ store' = store
          \/ store' = <<>>
          \/ /\ Len(store') = Len(store) + 1
             /\ SubSeq(store', 1, Len(store)) = store
       /\ last'.op \in {"list", "root"} => store' = store]_vars

StoreFrameWitness ==
    /\ Len(store) = 1
    /\ last.op = "list" /\ Len(last.body) = 1
    /\ \E r \in Reqs : clearedSince[r]
====
